---- MODULE Spec2Model ----
(***************************************************************************)
(* Model of src/deep_research.py: the text budgeter safe_truncate, the     *)
(* research orchestrator deep_research (one request, one step per await)   *)
(* and the excerpt cascade of _follow_link.                                 *)
(*                                                                         *)
(* Texts are run-length encoded strings: a text is a sequence of runs      *)
(* [c |-> symbol, tag |-> tag, n |-> length].  A run whose c is "\n" is n    *)
(* newline characters; a run whose c is a literal of the source (for       *)
(* example "WEB SEARCH ERROR: ") is the first n characters of that         *)
(* literal; the other runs are n characters of opaque, newline-free        *)
(* content (the query, a title, a snippet, an error message, ...).         *)
(* Lengths, slices and the search for "\n\n" are computed on the real      *)
(* character offsets.                                                      *)
(***************************************************************************)
EXTENDS Integers, Sequences, FiniteSets, TLC

VARIABLES
    \* ---- deep_research (orchestrator), one request
    pc,             \* position of the coroutine
    args,           \* the arguments of the call, as the caller passed them
    query,          \* length of the query argument
    sources,        \* the sources argument / local
    num_results,    \* the num_results argument / local
    result,         \* the report buffer (text)
    web_urls,       \* URLs found in the web block
    academic_urls,  \* URLs found in the academic block
    combined_urls,  \* <<kind, url>> pairs in extraction order
    i,              \* 1-based position of the next URL to follow
    calls,          \* adapter / extractor invocations, in order
    body,           \* the buffer as it stood before the size check
    returned,       \* "none", "value" (a text was returned) or "raised"
    \* ---- safe_truncate applied to drawn inputs
    t_pc, t_text, t_max, t_once, t_twice,
    \* ---- the excerpt cascade of _follow_link applied to drawn pages
    x_pc, x_page, x_content

vars == <<pc, args, query, sources, num_results, result, web_urls, academic_urls,
          combined_urls, i, calls, body, returned,
          t_pc, t_text, t_max, t_once, t_twice, x_pc, x_page, x_content>>

orchVars == <<pc, args, query, sources, num_results, result, web_urls,
              academic_urls, combined_urls, i, calls, body, returned>>
truncVars == <<t_pc, t_text, t_max, t_once, t_twice>>
cascVars == <<x_pc, x_page, x_content>>

----------------------------------------------------------------------------
(* Program constants *)

MAX_CONTENT_SIZE == 8000
MAX_RESULTS == 3

----------------------------------------------------------------------------
(* Strings *)

Min(a, b) == IF a < b THEN a ELSE b
Max(a, b) == IF a > b THEN a ELSE b

Run(c, tag, n) == [c |-> c, tag |-> tag, n |-> n]
Lit(s, n) == IF n = 0 THEN <<>> ELSE <<Run(s, 0, n)>>
NL(n) == IF n = 0 THEN <<>> ELSE <<Run("\n", 0, n)>>
Fill(c, tag, n) == IF n = 0 THEN <<>> ELSE <<Run(c, tag, n)>>

\* s + t
Cat(s, t) ==
    IF s = <<>> THEN t
    ELSE IF t = <<>> THEN s
    ELSE LET a == s[Len(s)]
             b == t[1]
         IN IF a.c = "\n" /\ b.c = "\n"
            THEN SubSeq(s, 1, Len(s) - 1) \o <<Run("\n", 0, a.n + b.n)>>
                 \o SubSeq(t, 2, Len(t))
            ELSE s \o t

RECURSIVE Join(_)
Join(parts) == IF parts = <<>> THEN <<>> ELSE Cat(parts[1], Join(Tail(parts)))

\* number of characters in the runs a..b of s
RECURSIVE RunsLen(_, _, _)
RunsLen(s, a, b) ==
    IF a > b THEN 0
    ELSE IF a = b THEN s[a].n
    ELSE RunsLen(s, a, (a + b) \div 2) + RunsLen(s, (a + b) \div 2 + 1, b)

\* len(s)
StrLen(s) == RunsLen(s, 1, Len(s))

\* the largest m in lo..hi such that the first m runs of s hold at most k
\* characters, where the first lo runs hold k - left of them
RECURSIVE WholeRunsIn(_, _, _, _)
WholeRunsIn(s, left, lo, hi) ==
    IF lo >= hi THEN lo
    ELSE LET mid == (lo + hi + 1) \div 2
             len == RunsLen(s, lo + 1, mid)
         IN IF len <= left THEN WholeRunsIn(s, left - len, mid, hi)
            ELSE WholeRunsIn(s, left, lo, mid - 1)

WholeRuns(s, k, lo, hi) == WholeRunsIn(s, k - RunsLen(s, 1, lo), lo, hi)

\* the first m runs of s and the first rest characters of the next one
CutAt(s, m, rest) ==
    IF m = Len(s) \/ rest = 0 THEN SubSeq(s, 1, m)
    ELSE Append(SubSeq(s, 1, m), Run(s[m + 1].c, s[m + 1].tag, rest))

PrefixFrom(s, k, m) == CutAt(s, m, k - RunsLen(s, 1, m))

\* the first k characters of s
Prefix(s, k) ==
    IF k <= 0 THEN <<>> ELSE PrefixFrom(s, k, WholeRuns(s, k, 0, Len(s)))

\* s[:k] with Python's slice semantics (a negative k counts from the end)
Slice(s, k) ==
    IF k < 0 THEN Prefix(s, Max(0, StrLen(s) + k)) ELSE Prefix(s, k)

\* offset of the first character of run j
Offset(s, j) == RunsLen(s, 1, j - 1)

\* the position of the last run of two or more newlines, 0 when none
LastOf(at) == IF at = {} THEN 0 ELSE CHOOSE j \in at : \A m \in at : m <= j
LastBreak(s) == LastOf({ j \in 1..Len(s) : s[j].c = "\n" /\ s[j].n >= 2 })

BreakOffset(s, j) == IF j = 0 THEN -1 ELSE Offset(s, j) + s[j].n - 2

\* s.rfind("\n\n"): offset of the last pair of newlines, -1 when none
RFindBreak(s) == BreakOffset(s, LastBreak(s))

\* s contains the whole literal run
Contains(s, c, tag, n) ==
    \E j \in 1..Len(s) : s[j].c = c /\ s[j].tag = tag /\ s[j].n = n

----------------------------------------------------------------------------
(* safe_truncate *)

suffix == Join(<<Lit("...", 3), NL(1),
                 Lit("[Content truncated due to size limits]", 38)>>)

safe_truncate(text, max_length) ==
    IF text = <<>> \/ StrLen(text) <= max_length THEN text
    ELSE LET last_para_break == RFindBreak(Slice(text, max_length - 50))
         IN IF last_para_break > max_length \div 2
            THEN Join(<<Slice(text, last_para_break), NL(2), suffix>>)
            ELSE Cat(Slice(text, max_length), suffix)

----------------------------------------------------------------------------
(* Idle values of the three groups of variables *)

OrchIdle ==
    /\ pc = "idle" /\ args = <<>> /\ query = 0 /\ sources = "both" /\ num_results = 0
    /\ result = <<>> /\ web_urls = <<>> /\ academic_urls = <<>>
    /\ combined_urls = <<>> /\ i = 0 /\ calls = <<>> /\ body = <<>>
    /\ returned = "none"

TruncIdle ==
    /\ t_pc = "idle" /\ t_text = <<>> /\ t_max = 0
    /\ t_once = <<>> /\ t_twice = <<>>

CascIdle ==
    /\ x_pc = "idle" /\ x_page = <<>> /\ x_content = <<>>

----------------------------------------------------------------------------
(* safe_truncate on drawn inputs: texts of up to MaxParas paragraphs      *)
(* separated by blank lines, and budgets on both sides of the 50 that the *)
(* function subtracts.                                                     *)

MaxParas == 3
ParaLens == {6, 30, 70}
MaxLengths == {0, 10, 40, 50, 60, 100, 150}

RECURSIVE Paragraphs(_)
Paragraphs(lens) ==
    IF lens = <<>> THEN <<>>
    ELSE IF Len(lens) = 1 THEN Fill("a", 1, lens[1])
    ELSE Join(<<Fill("a", Len(lens), lens[1]), NL(2), Paragraphs(Tail(lens))>>)

ParaSeqs == UNION { [1..k -> ParaLens] : k \in 0..MaxParas }

InitTrunc ==
    /\ OrchIdle /\ CascIdle
    /\ t_pc = "start"
    /\ t_text \in { Paragraphs(l) : l \in ParaSeqs }
    /\ t_max \in MaxLengths
    /\ t_once = <<>> /\ t_twice = <<>>

TruncateOnce ==
    /\ t_pc = "start"
    /\ t_once' = safe_truncate(t_text, t_max)
    /\ t_pc' = "once"
    /\ UNCHANGED <<t_text, t_max, t_twice>>
    /\ UNCHANGED orchVars /\ UNCHANGED cascVars

TruncateAgain ==
    /\ t_pc = "once"
    /\ t_twice' = safe_truncate(t_once, t_max)
    /\ t_pc' = "twice"
    /\ UNCHANGED <<t_text, t_max, t_once>>
    /\ UNCHANGED orchVars /\ UNCHANGED cascVars

NextTrunc == TruncateOnce \/ TruncateAgain

SpecTrunc == InitTrunc /\ [][NextTrunc]_vars

\* C8: truncating a second time with the same max_length changes nothing.
C8_Idempotent == t_pc = "twice" => t_twice = t_once

\* C9: for a non-negative max_length the output of safe_truncate is never
\* longer than max_length + len(suffix).
C9_LengthBound ==
    (t_pc \in {"once", "twice"} /\ t_max >= 0)
        => StrLen(t_once) <= t_max + StrLen(suffix)

----------------------------------------------------------------------------
(* The excerpt cascade of _follow_link.  A page is the sequence of its    *)
(* elements in document order, each [tag, n]: the element's tag and the   *)
(* length of its stripped text.  A fragment [e, n] is the first n         *)
(* characters of the text of element e; e = 0 is the whole-page text.     *)

Frag(e, n) == [e |-> e, n |-> n]

\* soup.find_all(tags): the positions of the elements with these tags
Indices(page, tags) ==
    SelectSeq([j \in 1..Len(page) |-> j], LAMBDA j : page[j].tag \in tags)

FirstN(s, k) == SubSeq(s, 1, Min(k, Len(s)))

\* lines 350-356: the first 5 paragraphs, those over 15 characters, cut to 300
Tier1(page) ==
    LET paragraphs == FirstN(Indices(page, {"p"}), 5)
        kept == SelectSeq(paragraphs, LAMBDA j : page[j].n > 15)
    IN [k \in 1..Len(kept) |-> Frag(kept[k], Min(page[kept[k]].n, 300))]

\* lines 360-366: the first 8 headings and paragraphs, those over 10, cut to 200
Tier2(page) ==
    LET elements == FirstN(Indices(page, {"h1", "h2", "h3", "p"}), 8)
        kept == SelectSeq(elements, LAMBDA j : page[j].n > 10)
    IN [k \in 1..Len(kept) |-> Frag(kept[k], Min(page[kept[k]].n, 200))]

\* len(re.sub(r'\s+', ' ', soup.get_text()).strip()) for a page whose text
\* is the texts of its elements: they are separated by single spaces
RECURSIVE CleanTextLen(_)
CleanTextLen(page) ==
    IF page = <<>> THEN 0
    ELSE IF Len(page) = 1 THEN page[1].n
    ELSE page[1].n + 1 + CleanTextLen(Tail(page))

\* the cascade with tier 2 replacing, not extending, what tier 1 found
content_texts_m(page) ==
    LET first == Tier1(page)
        second == IF Len(first) < 2 THEN Tier2(page) ELSE first
    IN IF second = <<>>
       THEN <<Frag(0, Min(CleanTextLen(page), 500))>>
       ELSE second

\* lines 346-372
content_texts(page) ==
    LET first == Tier1(page)
        second == IF Len(first) < 2 THEN first \o Tier2(page) ELSE first
    IN IF second = <<>>
       THEN <<Frag(0, Min(CleanTextLen(page), 500))>>
       ELSE second

MaxElems == 3
Tags == {"h1", "p", "div"}
TextLens == {5, 12, 20, 400}
RepeatCounts == {6, 9}
\* every page of up to MaxElems elements, and the pages that repeat one
\* element often enough to pass the limits of 5 paragraphs and 8 elements
Pages ==
    UNION { [1..k -> [tag : Tags, n : TextLens]] : k \in 0..MaxElems }
    \cup { [j \in 1..k |-> [tag |-> t, n |-> n]] :
              k \in RepeatCounts, t \in Tags, n \in TextLens }

InitCascade ==
    /\ OrchIdle /\ TruncIdle
    /\ x_pc = "fetched"
    /\ x_page \in Pages
    /\ x_content = <<>>

ExtractContent ==
    /\ x_pc = "fetched"
    /\ x_content' = content_texts(x_page)
    /\ x_pc' = "extracted"
    /\ UNCHANGED x_page
    /\ UNCHANGED orchVars /\ UNCHANGED truncVars

NextCascade == ExtractContent

SpecCascade == InitCascade /\ [][NextCascade]_vars

\* C10 as stated: the excerpt is the fragments of exactly one tier: tier 1
\* when it yields at least 2 fragments, otherwise tier 2 alone when it yields
\* at least 2, otherwise the single whole-text fragment cut to 500.
C10_OneTier ==
    x_pc = "extracted" =>
        x_content =
            IF Len(Tier1(x_page)) >= 2 THEN Tier1(x_page)
            ELSE IF Len(Tier2(x_page)) >= 2 THEN Tier2(x_page)
            ELSE <<Frag(0, Min(CleanTextLen(x_page), 500))>>

\* the elements each tier picks, read off the page: the paragraphs over 15
\* characters among the first 5 paragraphs, and the headings and paragraphs
\* over 10 characters among the first 8 of them
Rank(page, tags, j) == Cardinality({ m \in 1..j : page[m].tag \in tags })
LongParagraphs(page) ==
    { j \in 1..Len(page) : /\ page[j].tag = "p" /\ page[j].n > 15
                           /\ Rank(page, {"p"}, j) <= 5 }
Readable(page) ==
    { j \in 1..Len(page) : /\ page[j].tag \in {"h1", "h2", "h3", "p"}
                           /\ page[j].n > 10
                           /\ Rank(page, {"h1", "h2", "h3", "p"}, j) <= 8 }

\* the k-th smallest member of a set of positions
Nth(S, k) == CHOOSE j \in S : Cardinality({ m \in S : m <= j }) = k

\* frags is the elements of S in page order, each cut to width characters
ListsCut(frags, page, S, width) ==
    /\ Len(frags) = Cardinality(S)
    /\ \A k \in 1..Len(frags) :
           /\ frags[k].e = Nth(S, k)
           /\ frags[k].n = IF page[Nth(S, k)].n < width
                           THEN page[Nth(S, k)].n ELSE width

\* C10 amended: the cascade is cumulative.  With 2 or more tier-1 paragraphs
\* the excerpt is exactly those, each cut to 300.  With fewer than 2 the
\* tier-1 fragment, if any, is kept and the tier-2 fragments (headings h1-h3
\* and paragraphs over 10 characters among the first 8, each cut to 200) are
\* appended to it.  The whole-text fragment cut to 500 is used only when no
\* fragment at all was found.  A page with 0 paragraphs and 3 headings over
\* 10 characters yields the 3 heading fragments and no whole-text fragment.
C10_Cumulative ==
    x_pc = "extracted" =>
        LET long == LongParagraphs(x_page)
            readable == Readable(x_page)
            kept == IF Cardinality(long) >= 2 THEN Cardinality(long)
                    ELSE Min(Cardinality(long), Len(x_content))
        IN /\ Cardinality(long) >= 2 => ListsCut(x_content, x_page, long, 300)
           /\ (Cardinality(long) < 2 /\ long \cup readable # {}) =>
                  /\ ListsCut(SubSeq(x_content, 1, kept), x_page, long, 300)
                  /\ ListsCut(SubSeq(x_content, kept + 1, Len(x_content)),
                              x_page, readable, 200)
           /\ (long \cup readable = {}) =>
                  /\ Len(x_content) = 1
                  /\ x_content[1].e = 0 /\ x_content[1].n <= 500
           /\ (Len(x_page) = 3
                 /\ \A j \in 1..3 : x_page[j].tag = "h1" /\ x_page[j].n > 10) =>
                  /\ Len(x_content) = 3
                  /\ \A k \in 1..3 : x_content[k].e = k /\ x_content[k].n <= 200

C10_Witness ==
    /\ x_pc = "extracted"
    /\ x_page = <<[tag |-> "h1", n |-> 20], [tag |-> "p", n |-> 400]>>
    /\ x_content = <<Frag(2, 300), Frag(1, 20), Frag(2, 200)>>

----------------------------------------------------------------------------
(* Python values and lists *)

Str(v) == [type |-> "str", v |-> v]
Integer(v) == [type |-> "int", v |-> v]
NoneStr == [type |-> "NoneType", v |-> ""]
NoneInt == [type |-> "NoneType", v |-> 0]

\* s[:k] for a list s
ListSlice(s, k) ==
    IF k < 0 THEN SubSeq(s, 1, Max(0, Len(s) + k))
    ELSE SubSeq(s, 1, Min(k, Len(s)))

\* str(k) for a small non-negative count
Digits(k) == IF k < 10 THEN 1 ELSE 2
Number(k) == Fill("digits", k, Digits(k))

\* str(e)[:k]
Message(n) == Fill("message", 0, n)

Query(q) == Fill("query", 0, q)

----------------------------------------------------------------------------
(* _web_search, lines 184-248.  The response of the search engine is       *)
(* either a failure (raise_for_status or the transport raises) or a page   *)
(* of result blocks; a block is "hit" (title link with an http URL),      *)
(* "rel" (title link whose href is not an http URL) or "ad" (no title     *)
(* link).                                                                  *)

RawHit == [title |-> 120, url |-> 160, snippet |-> 230, authors_info |-> 170]

\* lines 208-235: the blocks kept, at most num_results of them
RECURSIVE search_results(_, _, _)
search_results(blocks, limit, kept) ==
    IF blocks = <<>> \/ Len(kept) >= limit THEN kept
    ELSE IF blocks[1] = "ad" THEN search_results(Tail(blocks), limit, kept)
    ELSE search_results(Tail(blocks), limit, Append(kept, blocks[1]))

\* lines 240-242: one numbered entry; url is the id of the hit's URL
WebEntry(k, kind, url) ==
    Join(<<Number(k), Lit(". ", 2), Fill("title", url, Min(RawHit.title, 100)),
           NL(1),
           Lit("   URL: ", 8),
           Fill(IF kind = "hit" THEN "http" ELSE "href", url,
                Min(RawHit.url, 150)),
           NL(1),
           Lit("   ", 3), Fill("snippet", url, Min(RawHit.snippet, 200)),
           NL(2)>>)

RECURSIVE WebEntries(_, _)
WebEntries(kept, k) ==
    IF k > Len(kept) THEN <<>>
    ELSE Cat(WebEntry(k, kept[k], 100 + k), WebEntries(kept, k + 1))

\* lines 238-244
web_search(q, limit, blocks) ==
    LET kept == search_results(blocks, limit, <<>>)
    IN IF kept = <<>>
       THEN Cat(Lit("No web results found for: ", 26), Query(q))
       ELSE Join(<<Lit("Web search results for: ", 24), Query(q), NL(2),
                   WebEntries(kept, 1)>>)

----------------------------------------------------------------------------
(* _academic_search, lines 250-316.  The response of the API is a failure *)
(* of the transport, a status other than 200, or a list of papers; a      *)
(* paper is "url" (it carries an http URL) or "nourl" (its url is empty). *)

\* lines 306-310
AcademicEntry(k, kind, url) ==
    Join(<<Number(k), Lit(". ", 2), Fill("title", url, Min(RawHit.title, 100)),
           NL(1),
           IF kind = "url"
           THEN Join(<<Lit("   URL: ", 8),
                       Fill("http", url, Min(RawHit.url, 150)), NL(1)>>)
           ELSE <<>>,
           Lit("   ", 3),
           Fill("authors_info", url, Min(RawHit.authors_info, 150)), NL(1),
           Lit("   ", 3), Fill("snippet", url, Min(RawHit.snippet, 200)),
           NL(2)>>)

RECURSIVE AcademicEntries(_, _)
AcademicEntries(papers, k) ==
    IF k > Len(papers) THEN <<>>
    ELSE Cat(AcademicEntry(k, papers[k], 200 + k),
             AcademicEntries(papers, k + 1))

\* lines 262-312; every paper of the response is listed, whatever the limit
academic_search(q, limit, status, papers) ==
    IF status # 200
    THEN Cat(Lit("Academic search error: API returned status ", 43),
             Fill("digits", status, 3))
    ELSE IF papers = <<>>
    THEN Lit("No academic results found. Try refining your search.", 52)
    ELSE Join(<<Lit("Academic search results for: ", 29), Query(q), NL(2),
                AcademicEntries(papers, 1)>>)

----------------------------------------------------------------------------
(* _follow_link, lines 318-382.  A fetched page is [pdf, title, desc,     *)
(* elems]: title is the length of the stripped title (0: no title), desc  *)
(* the length of the meta description (-1: none).                         *)

RECURSIVE Fragments(_)
Fragments(frags) ==
    IF frags = <<>> THEN <<>>
    ELSE IF Len(frags) = 1 THEN Fill("text", frags[1].e, frags[1].n)
    ELSE Join(<<Fill("text", frags[1].e, frags[1].n), NL(2),
                Fragments(Tail(frags))>>)

follow_link(url, page) ==
    IF page.pdf
    THEN Join(<<Lit("Title: ", 7), Lit("PDF Document", 12), NL(1),
                Lit("URL: ", 5), <<url>>, NL(2),
                Lit("Content: [PDF document - contents cannot be extracted directly]", 63)>>)
    ELSE Join(<<Lit("Title: ", 7),
                IF page.title = 0 THEN Lit("No title", 8)
                ELSE Fill("pagetitle", url.tag, Min(page.title, 100)),
                NL(1),
                Lit("URL: ", 5), <<url>>, NL(1),
                Lit("Description: ", 13),
                IF page.desc < 0 THEN Lit("No description available", 24)
                ELSE Fill("description", url.tag, Min(page.desc, 200)),
                NL(2),
                Lit("Content:", 8), NL(1),
                Fragments(content_texts(page.elems))>>)

----------------------------------------------------------------------------
(* deep_research, lines 69-182 *)

\* the clamp left out
Clamp_m(n) == n

\* lines 84-85
Clamp(n) == IF n > MAX_RESULTS THEN MAX_RESULTS ELSE n

\* sources.lower().strip(), on the values the model draws
LowerStrip(s) == CASE s = " Web " -> "web" [] OTHER -> s

\* lines 87-89
Normalize(s) ==
    IF LowerStrip(s) \in {"web", "academic", "both"} THEN LowerStrip(s)
    ELSE "both"

KindLen(kind) == IF kind = "web" THEN 3 ELSE 8

\* line 94
source_text(s) ==
    IF s = "both" THEN Lit("web and academic sources", 24)
    ELSE Cat(Lit(s, KindLen(s)), Lit(" sources", 8))

\* lines 93-95
Intro(q, s) ==
    Join(<<Lit("Research Query: ", 16), Query(q), NL(2),
           Lit("Searching ", 10), source_text(s), Lit("...", 3), NL(2)>>)

\* re.findall(r"URL: (https?://[^\s]+)", text)
FindUrls(text) ==
    LET at == SelectSeq([j \in 1..Len(text) |-> j],
                        LAMBDA j : /\ j < Len(text)
                                   /\ text[j].c = "   URL: " /\ text[j].n = 8
                                   /\ text[j + 1].c = "http")
    IN [k \in 1..Len(at) |-> text[at[k] + 1]]

\* lines 102-104
WebBlock(res, web_results) ==
    Join(<<res, Lit("WEB SEARCH RESULTS:", 19), NL(1), web_results, NL(2)>>)

\* the message appended whole
WebError_m(res, message) ==
    Join(<<res, Lit("WEB SEARCH ERROR: ", 18), message, NL(2)>>)

\* line 107
WebError(res, message) ==
    Join(<<res, Lit("WEB SEARCH ERROR: ", 18), Prefix(message, 100), NL(2)>>)

\* lines 114-116
AcademicBlock(res, academic_results) ==
    Join(<<res, Lit("ACADEMIC SEARCH RESULTS:", 24), NL(1), academic_results,
           NL(2)>>)

\* line 119
AcademicError(res, message) ==
    Join(<<res, Lit("ACADEMIC SEARCH ERROR: ", 23), Prefix(message, 100),
           NL(2)>>)

\* the second test inverted
NothingFound_m(web, academic) == web = <<>> /\ academic # <<>>

\* line 122
NothingFound(web, academic) == web = <<>> /\ academic = <<>>

\* line 123
NoValidResults(res) ==
    Cat(res, Lit("No valid search results found. Please try a different query.", 60))

\* the two appends of a round swapped
RECURSIVE Interleave_m(_, _, _)
Interleave_m(web, academic, k) ==
    IF k > Max(Len(web), Len(academic)) THEN <<>>
    ELSE (IF k <= Len(academic) THEN <<(<<"academic", academic[k]>>)>> ELSE <<>>)
         \o (IF k <= Len(web) THEN <<(<<"web", web[k]>>)>> ELSE <<>>)
         \o Interleave_m(web, academic, k + 1)

\* lines 127-132: one round per position, web first
RECURSIVE Interleave(_, _, _)
Interleave(web, academic, k) ==
    IF k > Max(Len(web), Len(academic)) THEN <<>>
    ELSE (IF k <= Len(web) THEN <<(<<"web", web[k]>>)>> ELSE <<>>)
         \o (IF k <= Len(academic) THEN <<(<<"academic", academic[k]>>)>> ELSE <<>>)
         \o Interleave(web, academic, k + 1)

\* lines 126-138
Combine(s, web, academic, limit) ==
    IF s = "both" THEN ListSlice(Interleave(web, academic, 1), limit)
    ELSE IF s = "web"
    THEN [k \in 1..Len(ListSlice(web, limit)) |-> <<"web", web[k]>>]
    ELSE [k \in 1..Len(ListSlice(academic, limit)) |-> <<"academic", academic[k]>>]

\* line 141
DetailHeader(res, count) ==
    Join(<<res, Lit("DETAILED CONTENT FROM TOP ", 26), Number(count),
           Lit(" SOURCES:", 9), NL(2)>>)

separator == Fill("=", 0, 40)

\* "SOURCE {i} ({source_type}): "
SourceTag(k, kind) ==
    <<Run("SOURCE " \o kind, k, 7 + Digits(k) + 2 + KindLen(kind) + 3)>>

\* lines 149-150: re.search(r"Title: (.+?)\n", page_content)
TitleOf(page_content, k) ==
    LET at == { j \in 1..(Len(page_content) - 2) :
                  /\ page_content[j].c = "Title: " /\ page_content[j].n = 7
                  /\ page_content[j + 1].c # "\n"
                  /\ page_content[j + 2].c = "\n" }
    IN IF at = {} THEN Cat(Lit("Source ", 7), Number(k))
       ELSE <<page_content[(CHOOSE j \in at : \A m \in at : j <= m) + 1]>>

\* lines 153-155
SourceBlock(res, k, kind, page_content) ==
    Join(<<res, separator, NL(1), SourceTag(k, kind),
           TitleOf(page_content, k), NL(1), separator, NL(2),
           page_content, NL(2)>>)

\* lines 158-160
SourceError(res, k, kind, message) ==
    Join(<<res, separator, NL(1), SourceTag(k, kind),
           Lit("Error following URL", 19), NL(1), separator, NL(1),
           Lit("Error: ", 7), Prefix(message, 100), NL(2)>>)

\* a failed fetch ends the loop
NextSource_m(k, count, failed) == IF failed THEN count + 1 ELSE k + 1

\* lines 143, 156: the loop goes on to the next URL, also after a failure
NextSource(k, count, failed) == k + 1

\* lines 164-168
Summary(q, s, count) ==
    Join(<<NL(1), Lit("RESEARCH SUMMARY:", 17), NL(1),
           Lit("Completed research on: ", 23), Query(q), NL(1),
           Lit("Examined ", 9), Number(count), Lit(" sources from ", 14),
           IF s = "both" THEN Lit("web and academic databases", 26)
           ELSE Cat(Lit(s, KindLen(s)), Lit(" sources", 8)),
           NL(1),
           Lit("The information above represents the most relevant content found on this topic.", 79),
           NL(1)>>)

\* line 171
MaxSize(summary) == MAX_CONTENT_SIZE - StrLen(summary) - 50

\* lines 171-176
Assemble(res, summary) ==
    Cat(IF StrLen(res) > MaxSize(summary)
        THEN safe_truncate(res, MaxSize(summary)) ELSE res,
        summary)

\* line 182, the handler of the outer try.  No step below reaches it: each
\* await inside the try has a handler of its own (lines 105, 117, 156) and
\* the statements between them do not raise for the arguments drawn here.
ResearchError(message) ==
    Cat(Lit("Research error: ", 16), Prefix(message, 200))

----------------------------------------------------------------------------
(* One request.  The arguments and the answers of the three remote        *)
(* services are drawn from the sets below.                                 *)

MaxHits == 4
QueryLens == {17, 4000, 7800}
ShortQueryLens == {17}
SourcesArgs == {Str("web"), Str("academic"), Str("both")}
OddSourcesArgs == {Str(" Web "), Str("scholar"), NoneStr}
NumResultsArgs == {Integer(n) : n \in {-1, 0, 1, 2, 3}}
OddNumResultsArgs == {Integer(5), NoneInt}

\* the calls: every query length with the regular arguments, and the short
\* query with the arguments that input validation changes or rejects
Arguments ==
    [query : QueryLens, sources : SourcesArgs, num_results : NumResultsArgs]
    \cup [query : ShortQueryLens, sources : SourcesArgs \cup OddSourcesArgs,
          num_results : NumResultsArgs \cup OddNumResultsArgs]
MessageLens == {30, 150}
LongMessageLens == {150}

Blocks(first, h) == IF h = 0 THEN <<>> ELSE <<first>> \o [j \in 1..(h - 1) |-> "hit"]
WebPages == { Blocks(first, h) : first \in {"hit", "rel", "ad"}, h \in 0..MaxHits }

Papers(first, h) == IF h = 0 THEN <<>> ELSE <<first>> \o [j \in 1..(h - 1) |-> "url"]
\* the API is sent limit=num_results (line 256) but the adapter lists every
\* paper of the response (lines 273-301), so the response may be longer
MaxPapers == 6
PaperLists == { Papers(first, h) : first \in {"url", "nourl"}, h \in 0..MaxHits }
LongPaperLists == { Papers("url", MaxPapers) }
\* the responses to a request: the long one is drawn for the short query
PaperListsFor(q) ==
    IF q \in ShortQueryLens THEN PaperLists \cup LongPaperLists ELSE PaperLists

Elem(tag, n) == [tag |-> tag, n |-> n]
SmallPage == [pdf |-> FALSE, title |-> 0, desc |-> -1,
              elems |-> <<Elem("p", 100), Elem("p", 100)>>]
BigPage == [pdf |-> FALSE, title |-> 120, desc |-> 250,
            elems |-> <<Elem("p", 400)>> \o [j \in 1..7 |-> Elem("h1", 400)]]
PdfPage == [pdf |-> TRUE, title |-> 0, desc |-> -1, elems |-> <<>>]
FetchedPages == {SmallPage, BigPage, PdfPage}

NoUrl == Run("", 0, 0)
\* one invocation: the limit passed to an adapter or the URL passed to the
\* extractor, and the length of the message of the error it raised (-1 when
\* it returned)
Call(fn, limit, url, raised) ==
    [fn |-> fn, limit |-> limit, url |-> url, raised |-> raised]

Init ==
    /\ TruncIdle /\ CascIdle
    /\ pc = "start"
    /\ args \in Arguments
    /\ query = args.query
    /\ sources = args.sources.v
    /\ num_results = args.num_results.v
    /\ result = <<>> /\ web_urls = <<>> /\ academic_urls = <<>>
    /\ combined_urls = <<>> /\ i = 0 /\ calls = <<>> /\ body = <<>>
    /\ returned = "none"

\* lines 84-87 with an argument of the wrong type: the comparison of line 84
\* or, after the clamp, the method call of line 87 raises before the try
\* statement is entered
EnterRaises ==
    /\ pc = "start"
    /\ args.num_results.type # "int" \/ args.sources.type # "str"
    /\ num_results' = IF args.num_results.type = "int"
                      THEN Clamp(num_results) ELSE num_results
    /\ pc' = "done"
    /\ returned' = "raised"
    /\ UNCHANGED <<args, query, sources, result, web_urls, academic_urls,
                   combined_urls, i, calls, body>>
    /\ UNCHANGED truncVars /\ UNCHANGED cascVars

\* lines 81-98
Enter ==
    /\ pc = "start"
    /\ args.num_results.type = "int" /\ args.sources.type = "str"
    /\ num_results' = Clamp(num_results)
    /\ sources' = Normalize(sources)
    /\ result' = Intro(query, Normalize(sources))
    /\ web_urls' = <<>>
    /\ pc' = "web"
    /\ UNCHANGED <<args, query, academic_urls, combined_urls, i, calls, body,
                   returned>>
    /\ UNCHANGED truncVars /\ UNCHANGED cascVars

\* line 99, sources = "academic"
WebSkipped ==
    /\ pc = "web"
    /\ sources \notin {"web", "both"}
    /\ pc' = "academic"
    /\ UNCHANGED <<args, query, sources, num_results, result, web_urls,
                   academic_urls, combined_urls, i, calls, body, returned>>
    /\ UNCHANGED truncVars /\ UNCHANGED cascVars

\* lines 100-104
WebSearchReturns ==
    /\ pc = "web"
    /\ sources \in {"web", "both"}
    /\ \E blocks \in WebPages :
         LET web_results == web_search(query, num_results, blocks)
         IN /\ result' = WebBlock(result, web_results)
            /\ web_urls' = ListSlice(FindUrls(web_results), num_results)
    /\ calls' = Append(calls, Call("web", num_results, NoUrl, -1))
    /\ pc' = "academic"
    /\ UNCHANGED <<args, query, sources, num_results, academic_urls,
                   combined_urls, i, body, returned>>
    /\ UNCHANGED truncVars /\ UNCHANGED cascVars

\* lines 105-107
WebSearchRaises ==
    /\ pc = "web"
    /\ sources \in {"web", "both"}
    /\ \E n \in MessageLens :
         /\ result' = WebError(result, Message(n))
         /\ calls' = Append(calls, Call("web", num_results, NoUrl, n))
    /\ pc' = "academic"
    /\ UNCHANGED <<args, query, sources, num_results, web_urls, academic_urls,
                   combined_urls, i, body, returned>>
    /\ UNCHANGED truncVars /\ UNCHANGED cascVars

\* line 111, sources = "web"
AcademicSkipped ==
    /\ pc = "academic"
    /\ sources \notin {"academic", "both"}
    /\ academic_urls' = <<>>
    /\ pc' = "check"
    /\ UNCHANGED <<args, query, sources, num_results, result, web_urls,
                   combined_urls, i, calls, body, returned>>
    /\ UNCHANGED truncVars /\ UNCHANGED cascVars

\* lines 112-116
AcademicSearchReturns ==
    /\ pc = "academic"
    /\ sources \in {"academic", "both"}
    /\ \E status \in {200, 429}, papers \in PaperListsFor(args.query) :
         LET academic_results ==
                 academic_search(query, num_results, status, papers)
         IN /\ status = 200 \/ papers = <<>>
            /\ result' = AcademicBlock(result, academic_results)
            /\ academic_urls' =
                   ListSlice(FindUrls(academic_results), num_results)
    /\ calls' = Append(calls, Call("academic", num_results, NoUrl, -1))
    /\ pc' = "check"
    /\ UNCHANGED <<args, query, sources, num_results, web_urls,
                   combined_urls, i, body, returned>>
    /\ UNCHANGED truncVars /\ UNCHANGED cascVars

\* lines 117-119
AcademicSearchRaises ==
    /\ pc = "academic"
    /\ sources \in {"academic", "both"}
    /\ \E n \in LongMessageLens :
         /\ result' = AcademicError(result, Message(n))
         /\ calls' = Append(calls, Call("academic", num_results, NoUrl, n))
    /\ academic_urls' = <<>>
    /\ pc' = "check"
    /\ UNCHANGED <<args, query, sources, num_results, web_urls,
                   combined_urls, i, body, returned>>
    /\ UNCHANGED truncVars /\ UNCHANGED cascVars

\* lines 122-123
ReturnNothingFound ==
    /\ pc = "check"
    /\ NothingFound(web_urls, academic_urls)
    /\ result' = NoValidResults(result)
    /\ returned' = "value"
    /\ pc' = "done"
    /\ UNCHANGED <<args, query, sources, num_results, web_urls, academic_urls,
                   combined_urls, i, calls, body>>
    /\ UNCHANGED truncVars /\ UNCHANGED cascVars

\* lines 126-141
CombineUrls ==
    /\ pc = "check"
    /\ ~NothingFound(web_urls, academic_urls)
    /\ combined_urls' = Combine(sources, web_urls, academic_urls, num_results)
    /\ result' = DetailHeader(result, Len(combined_urls'))
    /\ i' = 1
    /\ pc' = "follow"
    /\ UNCHANGED <<args, query, sources, num_results, web_urls, academic_urls,
                   calls, body, returned>>
    /\ UNCHANGED truncVars /\ UNCHANGED cascVars

\* lines 143-155
FollowLinkReturns ==
    /\ pc = "follow"
    /\ i <= Len(combined_urls)
    /\ \E page \in FetchedPages :
         result' = SourceBlock(result, i, combined_urls[i][1],
                               follow_link(combined_urls[i][2], page))
    /\ calls' = Append(calls, Call("follow", 0, combined_urls[i][2], -1))
    /\ i' = NextSource(i, Len(combined_urls), FALSE)
    /\ UNCHANGED <<pc, args, query, sources, num_results, web_urls,
                   academic_urls, combined_urls, body, returned>>
    /\ UNCHANGED truncVars /\ UNCHANGED cascVars

\* lines 156-160
FollowLinkRaises ==
    /\ pc = "follow"
    /\ i <= Len(combined_urls)
    /\ \E n \in LongMessageLens :
         /\ result' = SourceError(result, i, combined_urls[i][1], Message(n))
         /\ calls' = Append(calls, Call("follow", 0, combined_urls[i][2], n))
    /\ i' = NextSource(i, Len(combined_urls), TRUE)
    /\ UNCHANGED <<pc, args, query, sources, num_results, web_urls,
                   academic_urls, combined_urls, body, returned>>
    /\ UNCHANGED truncVars /\ UNCHANGED cascVars

\* lines 162-178
Finish ==
    /\ pc = "follow"
    /\ i > Len(combined_urls)
    /\ body' = result
    /\ result' = Assemble(result, Summary(query, sources, Len(combined_urls)))
    /\ returned' = "value"
    /\ pc' = "done"
    /\ UNCHANGED <<args, query, sources, num_results, web_urls, academic_urls,
                   combined_urls, i, calls>>
    /\ UNCHANGED truncVars /\ UNCHANGED cascVars

Next ==
    \/ EnterRaises
    \/ Enter
    \/ WebSkipped
    \/ WebSearchReturns
    \/ WebSearchRaises
    \/ AcademicSkipped
    \/ AcademicSearchReturns
    \/ AcademicSearchRaises
    \/ ReturnNothingFound
    \/ CombineUrls
    \/ FollowLinkReturns
    \/ FollowLinkRaises
    \/ Finish

Spec == Init /\ [][Next]_vars

----------------------------------------------------------------------------
(* Properties of one request *)

CallsOf(fn) == SelectSeq(calls, LAMBDA c : c.fn = fn)
WebRaised == \E j \in 1..Len(calls) : calls[j].fn = "web" /\ calls[j].raised >= 0

\* the request went past the early return and has a combined list
Extracting == i > 0
Finished == pc = "done" /\ Extracting

\* the footer of a finished request and the size it leaves to the body
Footer == Summary(query, sources, Len(combined_urls))
Truncated == Finished /\ StrLen(body) > MaxSize(Footer)

\* the report as the orchestrator assembled it, before the size budget
Assembled == IF Finished THEN body ELSE result

\* text holds the line "<literal>{message cut to 100}" of an error whose
\* message is n characters long
HasErrorLine(text, literal, width, n) ==
    \E j \in 1..(Len(text) - 2) :
        /\ text[j] = Run(literal, 0, width)
        /\ text[j + 1] = Run("message", 0, IF n < 100 THEN n ELSE 100)
        /\ text[j + 2].c = "\n"

HasWebErrorLine(text) ==
    \E j \in 1..Len(calls) :
        /\ calls[j].fn = "web" /\ calls[j].raised >= 0
        /\ HasErrorLine(text, "WEB SEARCH ERROR: ", 18, calls[j].raised)

IsResearchError(text) == text # <<>> /\ text[1].c = "Research error: "

\* C1: every call returns a text value; deep_research never raises to its
\* caller, whatever the arguments and the outcomes of the remote calls.
C1_NeverRaises == pc = "done" => returned = "value"

\* C2 as stated: when the web search raises, the returned report holds the
\* 'WEB SEARCH ERROR:' line with the message cut to 100 characters, the web
\* URL list is empty, with sources = both the academic adapter still runs,
\* and the request does not end in the 'Research error' string.
C2_WebFailureReported ==
    (pc = "done" /\ WebRaised) =>
        /\ returned = "value" /\ ~IsResearchError(result)
        /\ HasWebErrorLine(result)
        /\ web_urls = <<>>
        /\ sources = "both" => (Len(calls) >= 2 /\ calls[2].fn = "academic")

\* C2 amended: when the web search raises, the report the orchestrator
\* assembles holds the 'WEB SEARCH ERROR:' line with the message cut to 100
\* characters, and the returned report still holds it whenever the size
\* budget does not truncate the body; the web URL list stays empty; with
\* sources = both the academic adapter is invoked next and the URLs of its
\* block are extracted; the request returns a report, not 'Research error'.
C2_WebFailureIsolated ==
    WebRaised =>
        /\ web_urls = <<>>
        /\ HasWebErrorLine(Assembled)
        /\ (pc = "done" /\ ~Truncated) => HasWebErrorLine(result)
        /\ pc = "done" => (returned = "value" /\ ~IsResearchError(result))
        /\ (sources = "both" /\ pc # "academic") =>
               (Len(calls) >= 2 /\ calls[2].fn = "academic")
        /\ (sources = "both" /\ pc = "check" /\ num_results >= 0) =>
               /\ Len(academic_urls) =
                      Min(num_results, Len(FindUrls(result)))
               /\ academic_urls =
                      SubSeq(FindUrls(result), 1, Len(academic_urls))

C2_Witness ==
    /\ pc = "done" /\ WebRaised /\ sources = "both"
    /\ calls[1].raised > 100
    /\ academic_urls # <<>>
    /\ ~Truncated /\ HasWebErrorLine(result)

----------------------------------------------------------------------------

\* the 'SOURCE i (kind)' tags a text holds, whole or cut
SourceTags(text) ==
    SelectSeq(text, LAMBDA r : r.c \in {"SOURCE web", "SOURCE academic"})

\* the tags of the blocks a finished request owes: one per combined URL
ExpectedTags ==
    [j \in 1..Len(combined_urls) |->
        Run("SOURCE " \o combined_urls[j][1], j,
            IF combined_urls[j][1] = "web" THEN 16 ELSE 21)]

\* the extractor was invoked exactly once per combined URL, in list order
FollowedInOrder ==
    /\ Len(CallsOf("follow")) = Len(combined_urls)
    /\ \A j \in 1..Len(combined_urls) :
           CallsOf("follow")[j].url = combined_urls[j][2]

\* text holds exactly the owed blocks, an 'Error following URL' block for
\* each failed fetch and for no other
HasAllBlocks(text) ==
    LET owed == ExpectedTags
        followed == CallsOf("follow")
        failures == { k \in 1..(Len(text) - 1) :
                        text[k + 1] = Run("Error following URL", 0, 19) }
    IN /\ SourceTags(text) = owed
       /\ \A j \in 1..Len(combined_urls) :
              (followed[j].raised >= 0) <=> \E k \in failures : text[k] = owed[j]

\* text ends with the summary footer stating 'Examined count sources'
EndsWithSummary(text, count) ==
    /\ Len(text) >= 8
    /\ text[Len(text)].c = "\n"
    /\ text[Len(text) - 1].n = 79
    /\ text[Len(text) - 1].c =
           "The information above represents the most relevant content found on this topic."
    /\ \E k \in (Len(text) - 7)..(Len(text) - 5) :
           /\ text[k] = Run("Examined ", 0, 9)
           /\ text[k + 1] = Run("digits", count, 1)
           /\ text[k + 2] = Run(" sources from ", 0, 14)

\* C3 as stated: a request that reaches the extraction stage with k URLs
\* invokes the extractor once per URL in list order, and the returned report
\* holds exactly k SOURCE blocks (an 'Error following URL' block for each
\* failed fetch) and ends with the summary stating 'Examined k sources'.
C3_ExactlyKBlocks ==
    Finished =>
        /\ FollowedInOrder
        /\ HasAllBlocks(result)
        /\ EndsWithSummary(result, Len(combined_urls))

\* C3 amended: the extractor is invoked once per URL in list order whatever
\* fetch fails; the report assembled before the size budget holds exactly k
\* SOURCE blocks, an 'Error following URL' block for each failed fetch; the
\* returned report still holds them all whenever the budget does not
\* truncate the body, and always ends with 'Examined k sources'.
C3_NoUrlAborted ==
    /\ (pc = "follow") => Len(CallsOf("follow")) = i - 1
    /\ Finished =>
        /\ FollowedInOrder
        /\ HasAllBlocks(body)
        /\ ~Truncated => HasAllBlocks(result)
        /\ EndsWithSummary(result, Len(combined_urls))

C3_Witness ==
    /\ Finished /\ ~Truncated
    /\ sources = "web" /\ Len(combined_urls) = 2
    /\ CallsOf("follow")[1].raised >= 0
    /\ CallsOf("follow")[2].raised < 0
    /\ HasAllBlocks(result)

----------------------------------------------------------------------------

\* the round-robin order of two lists: web first in each round, then the
\* rest of the longer list
RoundRobin(web, academic) ==
    [p \in 1..(Len(web) + Len(academic)) |->
        IF p <= 2 * Min(Len(web), Len(academic))
        THEN IF p % 2 = 1 THEN <<"web", web[(p + 1) \div 2]>>
             ELSE <<"academic", academic[p \div 2]>>
        ELSE IF Len(web) > Len(academic)
        THEN <<"web", web[p - Len(academic)]>>
        ELSE <<"academic", academic[p - Len(web)]>>]

ExtractionOrder ==
    IF sources = "both" THEN RoundRobin(web_urls, academic_urls)
    ELSE IF sources = "web" THEN RoundRobin(web_urls, <<>>)
    ELSE RoundRobin(<<>>, academic_urls)

\* C4: the combined list is the round-robin interleaving of the two capped
\* URL lists (web first in each round, then the rest of the longer list; a
\* single kind gives that kind's list), cut to its first num_results
\* entries; web [w1,w2,w3], academic [a1,a2] and num_results = 3 give
\* [(web,w1),(academic,a1),(web,w2)].
C4_Interleaved ==
    Extracting =>
        /\ Len(combined_urls) <= Len(ExtractionOrder)
        /\ combined_urls = SubSeq(ExtractionOrder, 1, Len(combined_urls))
        /\ num_results >= 0 =>
               Len(combined_urls) = Min(num_results, Len(ExtractionOrder))
        /\ (sources = "both" /\ Len(web_urls) = 3 /\ Len(academic_urls) = 2
              /\ num_results = 3) =>
               combined_urls = << <<"web", web_urls[1]>>,
                                  <<"academic", academic_urls[1]>>,
                                  <<"web", web_urls[2]>> >>

C4_Witness ==
    /\ Finished /\ sources = "both" /\ num_results = 3
    /\ Len(web_urls) = 3 /\ Len(academic_urls) = 2
    /\ Len(combined_urls) = 3
    /\ combined_urls[2][1] = "academic"

----------------------------------------------------------------------------

\* C5: when both URL lists are empty after the requested adapters ran, the
\* request returns at once: the report ends with the 'No valid search
\* results found' sentence, holds no 'DETAILED CONTENT' section and no
\* summary footer, and the extractor is never invoked.
C5_NothingFoundReturns ==
    /\ pc = "follow" => (web_urls # <<>> \/ academic_urls # <<>>)
    /\ (pc = "done" /\ returned = "value" /\ web_urls = <<>>
          /\ academic_urls = <<>>) =>
        /\ result[Len(result)] =
             Run("No valid search results found. Please try a different query.", 0, 60)
        /\ \A j \in 1..Len(result) :
               result[j].c \notin {"DETAILED CONTENT FROM TOP ",
                                   "RESEARCH SUMMARY:"}
        /\ CallsOf("follow") = <<>>
        /\ combined_urls = <<>>

C5_Witness ==
    /\ pc = "done" /\ returned = "value" /\ sources = "both"
    /\ web_urls = <<>> /\ academic_urls = <<>>
    /\ Len(calls) = 2 /\ calls[1].raised >= 0 /\ calls[2].raised < 0
    /\ result[Len(result)].n = 60

----------------------------------------------------------------------------

\* C6: on the path that reaches final assembly, the body before the footer
\* is at most (MAX_CONTENT_SIZE - len(summary) - 50) + len(suffix)
\* characters long, so the returned report is never longer than
\* MAX_CONTENT_SIZE plus the length of the footer, whatever the length of the
\* query.
C6_SizeBounded ==
    Finished =>
        /\ StrLen(result) - StrLen(Footer)
               <= MaxSize(Footer) + StrLen(suffix)
        /\ StrLen(result) <= MAX_CONTENT_SIZE + StrLen(Footer)

----------------------------------------------------------------------------

Over == args.num_results.type = "int" /\ args.num_results.v > MAX_RESULTS

\* C7: a call with num_results greater than 3 runs with the cap 3
\* everywhere: after validation the local is 3, as if 3 had been passed; the
\* limit handed to each adapter is 3; each URL list, the combined list and
\* the number of extractions are at most 3.
C7_ClampedToMax ==
    (Over /\ pc # "start") =>
        /\ num_results = 3
        /\ \A j \in 1..Len(calls) :
               calls[j].fn \in {"web", "academic"} => calls[j].limit = 3
        /\ Len(web_urls) <= 3
        /\ Len(academic_urls) <= 3
        /\ Len(combined_urls) <= 3
        /\ Len(CallsOf("follow")) <= 3

C7_Witness ==
    /\ Over /\ Finished /\ sources = "both"
    /\ Contains(body, "digits", 4, 1)
    /\ Len(academic_urls) = 3
    /\ Len(CallsOf("follow")) = 3

----------------------------------------------------------------------------

\* C11: for every integer num_results, zero and negative ones included, and
\* every number of hits the backends return, the combined URL list never
\* holds more than MAX_RESULTS entries and a request invokes the link
\* extractor at most MAX_RESULTS times.
C11_AtMostMaxResults ==
    args.num_results.type = "int" =>
        /\ Len(combined_urls) <= MAX_RESULTS
        /\ Len(CallsOf("follow")) <= MAX_RESULTS

====
